---- MODULE Spec2Model ----
(***************************************************************************)
(* Model of the CloudHealth operator scripts:                              *)
(*   - execute-and-download-flexreport.py (class CloudHealthFlexReport     *)
(*     and main): login, report info, trigger, poll with backoff, download *)
(*   - create-flexreports.py: login, one createFlexReport mutation per     *)
(*     manifest entry, two output list files.                              *)
(* A run is one invocation of one of the two scripts.  Every network call  *)
(* is split in the send (part of the script step that issues it), the      *)
(* remote's answer or the expiry of the call's timeout, and the script     *)
(* step that consumes the outcome.                                         *)
(***************************************************************************)
EXTENDS Integers, Sequences, FiniteSets, TLC

(***************************************************************************)
(* JSON values as Python sees them after response.json().                  *)
(***************************************************************************)
Null == [t |-> "null"]
Str(s) == [t |-> "str", v |-> s]
Obj(f) == [t |-> "obj", f |-> f]
Arr(a) == [t |-> "arr", a |-> a]
EmptyObj == Obj(<<>>)
NotJson == [t |-> "notjson"]

\* Python truthiness of a JSON value
Truthy(x) ==
  CASE x.t = "null" -> FALSE
    [] x.t = "str" -> x.v # ""
    [] x.t = "obj" -> DOMAIN x.f # {}
    [] x.t = "arr" -> Len(x.a) > 0
    [] OTHER -> TRUE

\* key in dict
HasKey(x, k) == x.t = "obj" /\ k \in DOMAIN x.f

\* results of evaluating a Python expression: a value or a raised exception
Ok(v) == [exc |-> "none", val |-> v]
Raise(e) == [exc |-> e, val |-> Null]

\* x.get(k, d): AttributeError unless x is a dict
DictGet(x, k, d) ==
  IF x.t # "obj" THEN Raise("AttributeError")
  ELSE IF k \in DOMAIN x.f THEN Ok(x.f[k]) ELSE Ok(d)

\* x[k] on a dict: KeyError when missing, TypeError on None
Subscript(x, k) ==
  IF x.t # "obj" THEN Raise("TypeError")
  ELSE IF k \in DOMAIN x.f THEN Ok(x.f[k]) ELSE Raise("KeyError")

\* k in x / k not in x: TypeError when x is None
Contains(x, k) ==
  IF x.t = "null" THEN Raise("TypeError")
  ELSE IF HasKey(x, k) THEN Ok(Str("True")) ELSE Ok(Str(""))

(***************************************************************************)
(* Program constants                                                       *)
(***************************************************************************)
api_timeout == 30
download_timeout == 60
first_wait == 15
initial_sleep_time == 10
max_retries == 5
NoTimeout == 0

\* bound on the number of manifest entries of the bulk-creation script
MaxEntries == 2

(***************************************************************************)
(* Outcomes of one HTTP exchange                                           *)
(***************************************************************************)
HttpReply(status, body) == [exc |-> "none", status |-> status, body |-> body]
HttpExc(e) == [exc |-> e, status |-> 0, body |-> Null]
NoReply == HttpExc("unset")

GraphQLErrors == Obj([errors |-> Arr(<<Str("boom")>>), data |-> Null])

\* what any API call can get back besides a body of its own kind
ApiFailures ==
  { HttpExc("ConnectionError"),
    HttpReply(500, Str("Internal Server Error")),
    HttpReply(200, NotJson),
    HttpReply(200, Null),
    HttpReply(200, GraphQLErrors) }

LoginData(d) == HttpReply(200, Obj([data |-> d]))
Token(tk) == LoginData(Obj([loginAPI |-> Obj([accessToken |-> tk])]))

LoginReplies ==
  ApiFailures \cup
  { HttpReply(200, EmptyObj),
    LoginData(Null),
    LoginData(EmptyObj),
    LoginData(Obj([loginAPI |-> Null])),
    LoginData(Obj([loginAPI |-> EmptyObj])),
    Token(Null), Token(Str("")), Token(Str("null")), Token(Str("tok")) }

Node(n) == HttpReply(200, Obj([data |-> Obj([node |-> n])]))
ReportName == Str("My Report (Q1)!")

\* replies to the first report-info query (only the name is read)
InfoReplies ==
  ApiFailures \cup
  { HttpReply(200, EmptyObj),
    HttpReply(200, Obj([data |-> EmptyObj])),
    Node(Null),
    Node(Obj([id |-> Str("r1")])),
    Node(Obj([id |-> Str("r1"), name |-> Str("")])),
    Node(Obj([id |-> Str("r1"), name |-> ReportName])) }

TriggerReplies ==
  ApiFailures \cup
  { HttpReply(200, Obj([data |-> Obj([triggerFlexReportExecution |-> Str("True")])])) }

Result(r) == Node(Obj([id |-> Str("r1"), name |-> ReportName, result |-> r]))
WithStatus(s) == Result(Obj([status |-> Str(s), contents |-> Null]))
Completed(c) == Result(Obj([status |-> Str("COMPLETED"), contents |-> c]))
Url(u) == Arr(<<Obj([preSignedUrl |-> u])>>)

NonTerminalStatuses == {"RUNNING", "IN_PROGRESS"}

\* status checks answered with a status that is neither of the three named
NonTerminalReplies == { WithStatus(s) : s \in NonTerminalStatuses }

\* status checks answered QUEUED or FAILED
AbortReplies == { WithStatus("QUEUED"), WithStatus("FAILED") }

GoodUrl == Str("https://bucket/report.csv")

\* COMPLETED without a usable pre-signed URL
CompletedNoUrlReplies ==
  { Result(Obj([status |-> Str("COMPLETED")])),
    Completed(Null),
    Completed(Arr(<<>>)),
    Completed(Arr(<<Null>>)),
    Completed(Arr(<<EmptyObj>>)),
    Completed(Url(Null)),
    Completed(Url(Str(""))),
    Completed(Url(Str("null"))) }

CompletedReplies == CompletedNoUrlReplies \cup { Completed(Url(GoodUrl)) }

\* status checks answered without a status
NoStatusReplies ==
  { Node(Null),
    Node(Obj([id |-> Str("r1"), name |-> ReportName])),
    Result(Null),
    Result(EmptyObj),
    Result(Obj([status |-> Null])),
    Result(Obj([status |-> Str("")])) }

\* replies to a status check
PollReplies ==
  ApiFailures \cup NoStatusReplies \cup NonTerminalReplies \cup AbortReplies
  \cup CompletedReplies

DownloadReplies ==
  { HttpExc("ConnectionError"),
    HttpReply(403, Str("expired")),
    HttpReply(200, Str("a,b\n1,2\n")) }


(***************************************************************************)
(* CloudHealthFlexReport: the client class of the execute-and-download     *)
(* script, as functions of the outcome of the HTTP exchange.               *)
(***************************************************************************)

\* _execute_query after requests.post returned or raised
execute_query(o) ==
  IF o.exc # "none" THEN Raise("RuntimeError")
  ELSE IF o.status >= 400 THEN Raise("RuntimeError")
  ELSE IF o.body.t = "notjson" THEN Raise("RuntimeError")
  ELSE IF o.body.t = "null" THEN Raise("TypeError")
  ELSE IF HasKey(o.body, "errors") /\ Truthy(o.body.f["errors"])
       THEN Raise("RuntimeError")
  ELSE Ok(o.body)

\* a token is accepted when it is non-empty and not the string "null"
TokenAccepted(tk) == Truthy(tk) /\ tk # Str("null")

\* authenticate: val is what self.access_token holds afterwards
authenticate(o) ==
  LET response == execute_query(o) IN
  IF response.exc # "none" THEN response
  ELSE IF ~Truthy(response.val) \/ ~HasKey(response.val, "data")
       THEN Raise("ValueError")
  ELSE LET data == response.val.f["data"]
           hasLogin == Contains(data, "loginAPI") IN
       IF hasLogin.exc # "none" THEN hasLogin
       ELSE IF ~Truthy(hasLogin.val) THEN Raise("ValueError")
       ELSE LET login == data.f["loginAPI"]
                tk == Subscript(login, "accessToken") IN
            IF tk.exc # "none" THEN tk
            ELSE IF ~TokenAccepted(tk.val)
                 THEN [exc |-> "ValueError", val |-> tk.val]
            ELSE tk

\* get_report_info: the node of the response
get_report_info(o) ==
  LET response == execute_query(o) IN
  IF response.exc # "none" THEN response
  ELSE IF ~Truthy(response.val) \/ ~HasKey(response.val, "data")
       THEN Raise("ValueError")
  ELSE LET data == response.val.f["data"]
           hasNode == Contains(data, "node") IN
       IF hasNode.exc # "none" THEN hasNode
       ELSE IF ~Truthy(hasNode.val) THEN Raise("ValueError")
       ELSE Ok(data.f["node"])

\* download_report without raise_for_status
download_report_AnyStatus(o) ==
  IF o.exc # "none" THEN Raise("RuntimeError")
  ELSE Ok(o.body)

\* download_report up to the point where the file is opened
download_report(o) ==
  IF o.exc # "none" THEN Raise("RuntimeError")
  ELSE IF o.status >= 400 THEN Raise("RuntimeError")
  ELSE Ok(o.body)

(***************************************************************************)
(* main of the execute-and-download script: the expressions it evaluates   *)
(***************************************************************************)

\* InitialReportName without the test for an empty name
InitialReportName_NoNameCheck(o) ==
  LET info == get_report_info(o) IN
  IF info.exc # "none" THEN info
  ELSE DictGet(info.val, "name", Null)

\* report_info.get("name") and the emptiness test that follows
InitialReportName(o) ==
  LET info == get_report_info(o) IN
  IF info.exc # "none" THEN info
  ELSE LET name == DictGet(info.val, "name", Null) IN
       IF name.exc # "none" THEN name
       ELSE IF ~Truthy(name.val) THEN Raise("ValueError")
       ELSE name

\* report_info.get("result", {}).get("status") and the emptiness test
PolledStatus(o) ==
  LET info == get_report_info(o) IN
  IF info.exc # "none" THEN info
  ELSE LET result == DictGet(info.val, "result", EmptyObj) IN
       IF result.exc # "none" THEN result
       ELSE LET status == DictGet(result.val, "status", Null) IN
            IF status.exc # "none" THEN status
            ELSE IF ~Truthy(status.val) THEN Raise("ValueError")
            ELSE status

\* PollDecision with the retry ceiling tested one check too late
PollDecision_LateCeiling(status, cnt) ==
  IF status = "COMPLETED" THEN "download"
  ELSE IF status = "QUEUED" THEN "queued"
  ELSE IF status = "FAILED" THEN "failed"
  ELSE IF cnt > max_retries THEN "timeout"
  ELSE "continue"

\* PollDecision with the retry ceiling tested before the status
PollDecision_CeilingFirst(status, cnt) ==
  IF cnt >= max_retries THEN "timeout"
  ELSE IF status = "COMPLETED" THEN "download"
  ELSE IF status = "QUEUED" THEN "queued"
  ELSE IF status = "FAILED" THEN "failed"
  ELSE "continue"

\* PollDecision that keeps polling a QUEUED report
PollDecision_QueuedRetried(status, cnt) ==
  IF status = "COMPLETED" THEN "download"
  ELSE IF status = "FAILED" THEN "failed"
  ELSE IF cnt >= max_retries THEN "timeout"
  ELSE "continue"

\* the branch the loop body takes for a status and the current counter
PollDecision(status, cnt) ==
  IF status = "COMPLETED" THEN "download"
  ELSE IF status = "QUEUED" THEN "queued"
  ELSE IF status = "FAILED" THEN "failed"
  ELSE IF cnt >= max_retries THEN "timeout"
  ELSE "continue"

\* sleep_time after the counter has been incremented to cnt
NextSleepTime(cnt, st) ==
  IF cnt > 1 THEN (st * 3) \div 2 ELSE st

\* [0] on the contents list
FirstItem(x) ==
  IF x.t = "arr" THEN (IF Len(x.a) = 0 THEN Raise("IndexError") ELSE Ok(x.a[1]))
  ELSE IF x.t = "obj" THEN Raise("KeyError")
  ELSE Raise("TypeError")

\* report_info.get("result", {}).get("contents", [{}])[0].get("preSignedUrl")
DownloadUrl(info) ==
  LET result == DictGet(info, "result", EmptyObj) IN
  IF result.exc # "none" THEN result
  ELSE LET contents == DictGet(result.val, "contents", Arr(<<EmptyObj>>)) IN
       IF contents.exc # "none" THEN contents
       ELSE LET first == FirstItem(contents.val) IN
            IF first.exc # "none" THEN first
            ELSE LET url == DictGet(first.val, "preSignedUrl", Null) IN
                 IF url.exc # "none" THEN url
                 ELSE IF ~Truthy(url.val) \/ url.val = Str("null")
                      THEN Raise("ValueError")
                 ELSE url

\* exit status of the interpreter: sys.exit(1) and an uncaught exception alike
ExitFailure == 1
ExitSuccess == 0
ExitUsage == 2


(***************************************************************************)
(* create-flexreports.py: manifest entries, replies and the expressions    *)
(* the script evaluates                                                    *)
(***************************************************************************)
Num(n) == [t |-> "num", v |-> n]

Definition(name) ==
  Obj([name |-> Str(name), description |-> Str("d"), sqlStatement |-> Str("SELECT 1"),
       dataGranularity |-> Str("MONTHLY"), limit |-> Num(100), timeRange |-> Num(12),
       backlinking |-> Str(""), excludeCurrent |-> Str("true")])

\* an entry without "description", and one whose limit is not a number
NoDescription ==
  Obj([name |-> Str("broken"), sqlStatement |-> Str("SELECT 1"),
       dataGranularity |-> Str("MONTHLY"), limit |-> Num(100), timeRange |-> Num(12),
       backlinking |-> Str(""), excludeCurrent |-> Str("true")])

WellFormedDefinitions == { Definition("cost"), Definition("usage") }
Definitions == WellFormedDefinitions \cup { NoDescription }

SeqsUpTo(S, n) == UNION { [1..k -> S] : k \in 0..n }
Manifests == SeqsUpTo(Definitions, MaxEntries)

\* random.choices(ascii_uppercase + digits, k=6): two of the possible draws
Suffixes == {"A1B2C3", "ZZZZZZ"}

Created(c) == HttpReply(200, Obj([data |-> Obj([createFlexReport |-> c])]))

\* creation calls answered with the id of the new report
CreatedWithId(id) == Created(Obj([id |-> Str(id), name |-> Str("n")]))
SuccessReplies == { CreatedWithId("crn:1"), CreatedWithId("crn:2") }

CreateReplies ==
  { HttpExc("ConnectionError"),
    HttpReply(500, Str("Internal Server Error")),
    HttpReply(200, NotJson),
    HttpReply(200, Null),
    HttpReply(200, GraphQLErrors),
    HttpReply(200, EmptyObj),
    HttpReply(200, Obj([data |-> EmptyObj])),
    Created(Null),
    Created(Obj([name |-> Str("n")])),
    Created(Obj([id |-> Null, name |-> Str("n")])) } \cup SuccessReplies

\* int(x)
PyInt(x) == IF x.t = "num" THEN Ok(x) ELSE Raise("ValueError")

\* report_definition["name"] ... the flex_report_variables dictionary
FlexReportVariables(def, suffix) ==
  LET name == Subscript(def, "name")
      description == Subscript(def, "description")
      sql == Subscript(def, "sqlStatement")
      granularity == Subscript(def, "dataGranularity")
      limit == Subscript(def, "limit")
      timeRange == Subscript(def, "timeRange")
      backlinking == Subscript(def, "backlinking")
      excludeCurrent == Subscript(def, "excludeCurrent") IN
  IF name.exc # "none" THEN name
  ELSE IF description.exc # "none" THEN description
  ELSE IF sql.exc # "none" THEN sql
  ELSE IF granularity.exc # "none" THEN granularity
  ELSE IF limit.exc # "none" THEN limit
  ELSE IF PyInt(limit.val).exc # "none" THEN PyInt(limit.val)
  ELSE IF timeRange.exc # "none" THEN timeRange
  ELSE IF PyInt(timeRange.val).exc # "none" THEN PyInt(timeRange.val)
  ELSE IF backlinking.exc # "none" THEN backlinking
  ELSE IF excludeCurrent.exc # "none" THEN excludeCurrent
  ELSE Ok(Obj([name |-> <<name.val.v, suffix>>,
               limit |-> limit.val.v, timeRangeLast |-> timeRange.val.v,
               needBackLinkingForTags |-> Truthy(backlinking.val),
               excludeCurrent |-> Truthy(excludeCurrent.val)]))

\* the login of the bulk script: raise_for_status, .json()["data"]["loginAPI"]["accessToken"]
BulkAccessToken(o) ==
  IF o.exc # "none" THEN Raise("RequestException")
  ELSE IF o.status >= 400 THEN Raise("RequestException")
  ELSE IF o.body.t = "notjson" THEN Raise("RequestException")
  ELSE LET data == Subscript(o.body, "data") IN
       IF data.exc # "none" THEN data
       ELSE LET login == Subscript(data.val, "loginAPI") IN
            IF login.exc # "none" THEN login
            ELSE Subscript(login.val, "accessToken")

\* "Bearer " + access_token
BearerHeader(tk) == IF tk.t = "str" THEN Ok(tk) ELSE Raise("TypeError")

\* exc is "skip" for the logged per-item failures
Skip == Raise("skip")

\* CreateResult reading the id with ["id"] instead of .get("id")
CreateResult_StrictId(o) ==
  IF o.exc # "none" THEN Raise(o.exc)
  ELSE IF o.status # 200 THEN Skip
  ELSE IF o.body.t = "notjson" THEN Raise("JSONDecodeError")
  ELSE IF o.body.t = "null" THEN Skip
  ELSE LET data == DictGet(o.body, "data", EmptyObj) IN
       IF data.exc # "none" THEN data
       ELSE IF ~Truthy(data.val) THEN Skip
       ELSE LET create == DictGet(data.val, "createFlexReport", EmptyObj) IN
            IF create.exc # "none" THEN create
            ELSE IF ~Truthy(create.val) THEN Skip
            ELSE LET id == Subscript(create.val, "id") IN
                 IF id.exc # "none" THEN id
                 ELSE IF ~Truthy(id.val) THEN Skip
                 ELSE id

\* the nested unwrapping of the creation response: val is the id on success
CreateResult(o) ==
  IF o.exc # "none" THEN Raise(o.exc)
  ELSE IF o.status # 200 THEN Skip
  ELSE IF o.body.t = "notjson" THEN Raise("JSONDecodeError")
  ELSE IF o.body.t = "null" THEN Skip
  ELSE LET data == DictGet(o.body, "data", EmptyObj) IN
       IF data.exc # "none" THEN data
       ELSE IF ~Truthy(data.val) THEN Skip
       ELSE LET create == DictGet(data.val, "createFlexReport", EmptyObj) IN
            IF create.exc # "none" THEN create
            ELSE IF ~Truthy(create.val) THEN Skip
            ELSE LET id == DictGet(create.val, "id", Null) IN
                 IF id.exc # "none" THEN id
                 ELSE IF ~Truthy(id.val) THEN Skip
                 ELSE id

\* a file on disk: absent, or its lines
Absent == [exists |-> FALSE, lines |-> <<>>]
Written(lines) == [exists |-> TRUE, lines |-> lines]

\* with open("previous-run.list", "w"): one line per id
WriteIdFile(ids, old) == Written(ids)

\* if successful_reports: with open("successful_reports.list", "w") ...
WriteSuccessFile(names, old) == IF names # <<>> THEN Written(names) ELSE old

(***************************************************************************)
(* State                                                                   *)
(***************************************************************************)
VARIABLES
  script,              \* which script this run is: "execute" or "bulk"
  pc,                  \* position of the script
  exit_status,         \* process exit status, -1 while running
  message,             \* the last operator-facing message class printed
  access_token,        \* the bearer token (JSON value), Null before login
  calls,               \* every network call issued, in order
  replies,             \* the outcome of every call that ended, in order
  netState,            \* "idle", "pending" (call in flight) or "replied"
  netCall,             \* the call in flight
  netReply,            \* its outcome once netState = "replied"
  \* execute-and-download
  report_name, report_info, counter, sleep_time,
  statuses,            \* the status printed by each "Status check #n"
  sleeps,              \* every time.sleep performed, in order
  download_url,
  output_file,         \* content of the downloaded file, Null when not written
  \* bulk creation
  report_definitions,  \* the manifest
  index,               \* position of the for loop in the manifest
  report_name_with_suffix,
  flex_report_ids, successful_reports,
  attempted,           \* manifest positions for which a creation call was issued
  created,             \* manifest positions whose creation succeeded
  id_file, success_file  \* the two list files on disk, Null when absent

netVars == <<calls, replies, netState, netCall, netReply>>
execVars == <<report_name, report_info, counter, sleep_time, statuses, sleeps,
              download_url, output_file>>
bulkVars == <<report_definitions, index, report_name_with_suffix,
              flex_report_ids, successful_reports, attempted, created,
              id_file, success_file>>
vars == <<script, pc, exit_status, message, access_token, netVars, execVars, bulkVars>>

NoCall == [kind |-> "none", timeout |-> NoTimeout, auth |-> Null]

\* the process ends: sys.exit(code), falling off the end, or a traceback
Exit(code, msg) ==
  /\ pc' = "exited"
  /\ exit_status' = code
  /\ message' = msg
  /\ netState' = "idle"
  /\ UNCHANGED <<calls, replies, netCall, netReply>>

\* uncaught exceptions end the interpreter with a traceback and status 1
ExitOn(exc, caught, msg) ==
  IF exc \in caught THEN Exit(ExitFailure, msg) ELSE Exit(ExitFailure, "Traceback")

\* requests.post / requests.get is entered: the call is in flight
Send(kind, timeout, auth, nextpc) ==
  /\ pc' = nextpc
  /\ netState' = "pending"
  /\ netCall' = [kind |-> kind, timeout |-> timeout, auth |-> auth]
  /\ netReply' = NoReply
  /\ calls' = Append(calls, [kind |-> kind, timeout |-> timeout, auth |-> auth])
  /\ UNCHANGED <<exit_status, message, replies>>

RepliesFor(kind) ==
  CASE kind = "login" -> LoginReplies
    [] kind = "info" -> InfoReplies
    [] kind = "trigger" -> TriggerReplies
    [] kind = "poll" -> PollReplies
    [] kind = "download" -> DownloadReplies
    [] kind = "create" -> CreateReplies
    [] OTHER -> {}

(***************************************************************************)
(* The remote side and the timeout of the HTTP library                     *)
(***************************************************************************)
RemoteAnswers ==
  /\ netState = "pending"
  /\ \E o \in RepliesFor(netCall.kind) :
       /\ netReply' = o
       /\ replies' = Append(replies, o)
  /\ netState' = "replied"
  /\ UNCHANGED <<script, pc, exit_status, message, access_token, calls, netCall,
                 execVars, bulkVars>>

\* requests raises Timeout only when the call was given a timeout
TimeoutExpires ==
  /\ netState = "pending"
  /\ netCall.timeout # NoTimeout
  /\ netReply' = HttpExc("Timeout")
  /\ replies' = Append(replies, HttpExc("Timeout"))
  /\ netState' = "replied"
  /\ UNCHANGED <<script, pc, exit_status, message, access_token, calls, netCall,
                 execVars, bulkVars>>

(***************************************************************************)
(* main of execute-and-download-flexreport.py                              *)
(***************************************************************************)
\* parser.parse_args(): the parser defines no argument of its own
ParseArgs ==
  /\ script = "execute" /\ pc = "start"
  /\ \E argv \in {"none", "help", "unknown"} :
       CASE argv = "none" ->
              /\ pc' = "prompt_api_key"
              /\ UNCHANGED <<exit_status, message, netVars>>
         [] argv = "help" -> Exit(ExitSuccess, "usage")
         [] OTHER -> Exit(ExitUsage, "unrecognized arguments")
  /\ UNCHANGED <<script, access_token, execVars, bulkVars>>

\* input("Enter your CloudHealth API key: ") then client.authenticate() sends
PromptApiKey ==
  /\ script = "execute" /\ pc = "prompt_api_key"
  /\ \E typed \in {"interrupt", "", "key"} :
       CASE typed = "interrupt" -> Exit(ExitFailure, "Operation cancelled by user")
         [] typed = "" -> Exit(ExitFailure, "API key cannot be empty")
         [] OTHER -> Send("login", api_timeout, Null, "authenticate")
  /\ UNCHANGED <<script, access_token, execVars, bulkVars>>

\* client.authenticate() returns or raises
Authenticate ==
  /\ script = "execute" /\ pc = "authenticate" /\ netState = "replied"
  /\ LET r == authenticate(netReply) IN
       /\ access_token' = r.val
       /\ IF r.exc = "none"
          THEN /\ pc' = "prompt_report_id"
               /\ message' = "Authentication successful"
               /\ netState' = "idle"
               /\ UNCHANGED <<exit_status, calls, replies, netCall, netReply>>
          ELSE ExitOn(r.exc, {"ValueError", "RuntimeError"}, "Authentication failed")
  /\ UNCHANGED <<script, execVars, bulkVars>>

\* input("Enter FlexReport ID: ") then client.get_report_info sends
PromptReportId ==
  /\ script = "execute" /\ pc = "prompt_report_id"
  /\ \E typed \in {"interrupt", "", "r1"} :
       CASE typed = "interrupt" -> Exit(ExitFailure, "Operation cancelled by user")
         [] typed = "" -> Exit(ExitFailure, "FlexReport ID cannot be empty")
         [] OTHER ->
              IF ~Truthy(access_token)
              THEN Exit(ExitFailure, "Failed to get report information")
              ELSE Send("info", api_timeout, access_token, "get_info")
  /\ UNCHANGED <<script, access_token, execVars, bulkVars>>

\* the initial get_report_info returns; on success execute_report sends
GetInitialInfo ==
  /\ script = "execute" /\ pc = "get_info" /\ netState = "replied"
  /\ LET r == InitialReportName(netReply) IN
       IF r.exc = "none"
       THEN /\ report_name' = r.val
            /\ report_info' = get_report_info(netReply).val
            /\ Send("trigger", api_timeout, access_token, "execute_report")
       ELSE /\ ExitOn(r.exc, {"ValueError", "RuntimeError"},
                      "Failed to get report information")
            /\ UNCHANGED <<report_name, report_info>>
  /\ UNCHANGED <<script, access_token, counter, sleep_time, statuses, sleeps,
                 download_url, output_file, bulkVars>>

\* execute_report returns; sleep 15, initialise the loop, first status check
ExecuteReport ==
  /\ script = "execute" /\ pc = "execute_report" /\ netState = "replied"
  /\ LET r == execute_query(netReply) IN
       IF r.exc = "none"
       THEN /\ sleeps' = Append(sleeps, first_wait)
            /\ counter' = 1
            /\ sleep_time' = initial_sleep_time
            /\ Send("poll", api_timeout, access_token, "poll")
       ELSE /\ ExitOn(r.exc, {"RuntimeError"}, "Failed to execute report")
            /\ UNCHANGED <<sleeps, counter, sleep_time>>
  /\ UNCHANGED <<script, access_token, report_name, report_info, statuses,
                 download_url, output_file, bulkVars>>

\* one iteration of the while loop, from the return of get_report_info; the
\* COMPLETED branch runs on to the extraction of the URL and requests.get
PollCheck ==
  /\ script = "execute" /\ pc = "poll" /\ netState = "replied"
  /\ LET r == PolledStatus(netReply)
         info == get_report_info(netReply) IN
       IF r.exc # "none"
       THEN /\ ExitOn(r.exc, {"ValueError", "RuntimeError"},
                      "Failed to check report status")
            /\ report_info' = IF info.exc = "none" THEN info.val ELSE report_info
            /\ UNCHANGED <<counter, sleep_time, statuses, sleeps, download_url>>
       ELSE LET status == r.val.v
                branch == PollDecision(status, counter) IN
            /\ report_info' = info.val
            /\ statuses' = Append(statuses, status)
            /\ CASE branch = "download" ->
                      LET url == DownloadUrl(info.val) IN
                      /\ UNCHANGED <<counter, sleep_time, sleeps>>
                      /\ IF url.exc = "none"
                         THEN /\ download_url' = url.val
                              /\ Send("download", download_timeout, Null, "download")
                         ELSE /\ ExitOn(url.exc, {"ValueError", "IndexError"},
                                        "Failed to retrieve download URL")
                              /\ UNCHANGED download_url
                 [] branch = "queued" ->
                      /\ Exit(ExitFailure, "Report is QUEUED")
                      /\ UNCHANGED <<counter, sleep_time, sleeps, download_url>>
                 [] branch = "failed" ->
                      /\ Exit(ExitFailure, "REPORT EXECUTION FAILED")
                      /\ UNCHANGED <<counter, sleep_time, sleeps, download_url>>
                 [] branch = "timeout" ->
                      /\ Exit(ExitFailure, "TIMEOUT")
                      /\ UNCHANGED <<counter, sleep_time, sleeps, download_url>>
                 [] OTHER ->
                      /\ counter' = counter + 1
                      /\ sleep_time' = NextSleepTime(counter + 1, sleep_time)
                      /\ sleeps' = Append(sleeps, NextSleepTime(counter + 1, sleep_time))
                      /\ Send("poll", api_timeout, access_token, "poll")
                      /\ UNCHANGED download_url
  /\ UNCHANGED <<script, access_token, report_name, output_file, bulkVars>>

\* download_report returns or raises; the file is opened and written
Download ==
  /\ script = "execute" /\ pc = "download" /\ netState = "replied"
  /\ LET r == download_report(netReply) IN
       IF r.exc # "none"
       THEN /\ ExitOn(r.exc, {"RuntimeError"}, "DOWNLOAD FAILED")
            /\ UNCHANGED output_file
       ELSE \E disk \in {"ok", "OSError"} :
              IF disk = "ok"
              THEN /\ output_file' = r.val
                   /\ Exit(ExitSuccess, "DOWNLOAD COMPLETE")
              ELSE /\ Exit(ExitFailure, "Traceback")
                   /\ UNCHANGED output_file
  /\ UNCHANGED <<script, access_token, report_name, report_info, counter,
                 sleep_time, statuses, sleeps, download_url, bulkVars>>


(***************************************************************************)
(* create-flexreports.py                                                   *)
(***************************************************************************)
\* the top of the for loop at manifest position i with the token tk and the
\* lists ids and names: build the variables and send the mutation, or, past the last
\* entry, write the two files and fall off the end of the script
LoopTop(tk, i, ids, names) ==
  IF i > Len(report_definitions)
  THEN /\ id_file' = WriteIdFile(ids, id_file)
       /\ success_file' = WriteSuccessFile(names, success_file)
       /\ Exit(ExitSuccess, "done")
       /\ UNCHANGED <<index, report_name_with_suffix, attempted>>
  ELSE \E suffix \in Suffixes :
         LET variables == FlexReportVariables(report_definitions[i], suffix)
             bearer == BearerHeader(tk) IN
         IF variables.exc # "none" \/ bearer.exc # "none"
         THEN /\ Exit(ExitFailure, "Traceback")
              /\ index' = i
              /\ UNCHANGED <<report_name_with_suffix, attempted, id_file, success_file>>
         ELSE /\ index' = i
              /\ report_name_with_suffix' = variables.val.f["name"]
              /\ attempted' = Append(attempted, i)
              /\ Send("create", NoTimeout, tk, "create")
              /\ UNCHANGED <<id_file, success_file>>

\* get_filename, json.load, input of the API key, and the login call is sent
ReadManifest ==
  /\ script = "bulk" /\ pc = "start"
  /\ \E loaded \in {"FileNotFoundError", "JSONDecodeError", "ok"} :
       CASE loaded = "FileNotFoundError" ->
              /\ Exit(ExitFailure, "File not found")
              /\ UNCHANGED report_definitions
         [] loaded = "JSONDecodeError" ->
              /\ Exit(ExitFailure, "Error reading JSON file")
              /\ UNCHANGED report_definitions
         [] OTHER ->
              /\ \E m \in Manifests : report_definitions' = m
              /\ Send("login", NoTimeout, Null, "bulk_login")
  /\ UNCHANGED <<script, access_token, execVars, index, report_name_with_suffix,
                 flex_report_ids, successful_reports, attempted, created,
                 id_file, success_file>>

\* the login call returns or raises; the lists are initialised and the loop
\* is entered
BulkLogin ==
  /\ script = "bulk" /\ pc = "bulk_login" /\ netState = "replied"
  /\ LET r == BulkAccessToken(netReply) IN
       IF r.exc # "none"
       THEN /\ ExitOn(r.exc, {"RequestException", "KeyError"},
                      "Failed to retrieve access token")
            /\ UNCHANGED <<access_token, index, report_name_with_suffix,
                           flex_report_ids, successful_reports, attempted,
                           id_file, success_file>>
       ELSE /\ access_token' = r.val
            /\ flex_report_ids' = <<>>
            /\ successful_reports' = <<>>
            /\ LoopTop(r.val, 1, <<>>, <<>>)
  /\ UNCHANGED <<script, execVars, report_definitions, created>>

\* the creation call returns or raises; the lists are updated and the loop
\* goes to the next entry
CreateReport ==
  /\ script = "bulk" /\ pc = "create" /\ netState = "replied"
  /\ LET r == CreateResult(netReply) IN
       CASE r.exc = "none" ->
              /\ flex_report_ids' = Append(flex_report_ids, r.val.v)
              /\ successful_reports' = Append(successful_reports, report_name_with_suffix)
              /\ created' = Append(created, index)
              /\ LoopTop(access_token, index + 1, Append(flex_report_ids, r.val.v),
                         Append(successful_reports, report_name_with_suffix))
         [] r.exc = "skip" ->
              /\ UNCHANGED <<flex_report_ids, successful_reports, created>>
              /\ LoopTop(access_token, index + 1, flex_report_ids, successful_reports)
         [] OTHER ->
              /\ Exit(ExitFailure, "Traceback")
              /\ UNCHANGED <<flex_report_ids, successful_reports, created, index,
                             report_name_with_suffix, attempted, id_file, success_file>>
  /\ UNCHANGED <<script, access_token, execVars, report_definitions>>


(***************************************************************************)
(* Specification                                                           *)
(***************************************************************************)
\* what a previous run of the bulk script may have left on disk
PreviousRuns ==
  { <<Absent, Absent>>,
    <<Written(<<"crn:0">>), Written(<<(<<"old", "QQQQQQ">>)>>)>> }

Init ==
  /\ script \in {"execute", "bulk"}
  /\ pc = "start"
  /\ exit_status = -1
  /\ message = ""
  /\ access_token = Null
  /\ calls = <<>>
  /\ replies = <<>>
  /\ netState = "idle"
  /\ netCall = NoCall
  /\ netReply = NoReply
  /\ report_name = Null
  /\ report_info = Null
  /\ counter = 0
  /\ sleep_time = 0
  /\ statuses = <<>>
  /\ sleeps = <<>>
  /\ download_url = Null
  /\ output_file = Null
  /\ report_definitions = <<>>
  /\ index = 0
  /\ report_name_with_suffix = <<"", "">>
  /\ flex_report_ids = <<>>
  /\ successful_reports = <<>>
  /\ attempted = <<>>
  /\ created = <<>>
  /\ \E prev \in PreviousRuns :
       /\ id_file = (IF script = "bulk" THEN prev[1] ELSE Absent)
       /\ success_file = (IF script = "bulk" THEN prev[2] ELSE Absent)

Next ==
  \/ RemoteAnswers
  \/ TimeoutExpires
  \/ ParseArgs
  \/ PromptApiKey
  \/ Authenticate
  \/ PromptReportId
  \/ GetInitialInfo
  \/ ExecuteReport
  \/ PollCheck
  \/ Download
  \/ ReadManifest
  \/ BulkLogin
  \/ CreateReport

Spec == Init /\ [][Next]_vars

TypeOK ==
  /\ script \in {"execute", "bulk"}
  /\ exit_status \in {-1, ExitSuccess, ExitFailure, ExitUsage}
  /\ netState \in {"idle", "pending", "replied"}
  /\ (pc = "exited") = (exit_status # -1)
  /\ counter \in 0..max_retries
  /\ index \in 0..(MaxEntries + 1)


(***************************************************************************)
(* Properties of the execute-and-download script                           *)
(***************************************************************************)
CallsOf(kind) == { i \in 1..Len(calls) : calls[i].kind = kind }
NumCalls(kind) == Cardinality(CallsOf(kind))

\* position in calls of the n-th call of a kind
NthCall(kind, n) ==
  CHOOSE i \in CallsOf(kind) : Cardinality({ j \in CallsOf(kind) : j <= i }) = n

\* the number of calls of a kind that have ended
NumEnded(kind) == Cardinality({ i \in CallsOf(kind) : i <= Len(replies) })

\* the outcome of the n-th call of a kind
Outcome(kind, n) == replies[NthCall(kind, n)]

\* the loop body has run for every status check that was answered
PollsProcessed == ~(pc = "poll" /\ netState = "replied")

Last(seq) == seq[Len(seq)]

\* C1: when every status check is answered with a status other than
\* COMPLETED, QUEUED and FAILED, the loop makes exactly max_retries (5) status
\* checks and leaves through the timeout branch with a non-zero exit status;
\* there is never a sixth check and never a download.
C1_TimeoutAfterFiveChecks ==
  (/\ script = "execute"
   /\ \A n \in 1..NumEnded("poll") : Outcome("poll", n) \in NonTerminalReplies)
  =>
  /\ NumCalls("poll") <= max_retries
  /\ NumCalls("download") = 0
  /\ (NumEnded("poll") = max_retries /\ PollsProcessed) =>
        /\ pc = "exited"
        /\ exit_status = ExitFailure
        /\ message = "TIMEOUT"
        /\ Len(statuses) = max_retries
  /\ (pc = "exited" /\ NumCalls("poll") > 0) =>
        /\ NumCalls("poll") = max_retries
        /\ message = "TIMEOUT"
        /\ exit_status # ExitSuccess

C1_Witness ==
  /\ script = "execute" /\ pc = "exited" /\ message = "TIMEOUT"
  /\ NumCalls("poll") = 5
  /\ \A n \in 1..5 : Outcome("poll", n) = WithStatus("RUNNING")

\* C2: for k in 0..4, when the first k status checks are answered with a
\* non-terminal status and check k+1 with COMPLETED, the loop makes exactly
\* k+1 checks and goes on to the download step: with a usable pre-signed URL
\* the download call is issued, without one the run ends on the missing URL;
\* the timeout branch is not taken even when the counter is at the ceiling.
C2_CompletedProceedsToDownload ==
  \A k \in 0..(max_retries - 1) :
    (/\ script = "execute"
     /\ NumEnded("poll") >= k + 1
     /\ PollsProcessed
     /\ \A n \in 1..k : Outcome("poll", n) \in NonTerminalReplies
     /\ Outcome("poll", k + 1) \in CompletedReplies)
    =>
    /\ NumCalls("poll") = k + 1
    /\ Len(statuses) = k + 1
    /\ Last(statuses) = "COMPLETED"
    /\ message # "TIMEOUT"
    /\ pc \in {"download", "exited"}
    /\ IF Outcome("poll", k + 1) = Completed(Url(GoodUrl))
       THEN /\ NumCalls("download") = 1
            /\ Last(calls).kind = "download"
            /\ download_url = GoodUrl
       ELSE /\ NumCalls("download") = 0
            /\ pc = "exited"
            /\ message \in {"Failed to retrieve download URL", "Traceback"}

C2_Witness ==
  /\ script = "execute"
  /\ NumCalls("poll") = max_retries
  /\ counter = max_retries
  /\ \A n \in 1..4 : Outcome("poll", n) \in NonTerminalReplies
  /\ NumEnded("poll") = 5
  /\ Outcome("poll", 5) = Completed(Url(GoodUrl))
  /\ pc = "download"

\* C3: when a status check, the first or a later one, is answered QUEUED or
\* FAILED, the script stops at once: no further status check, no further
\* sleep, no download, and a non-zero exit status.
C3_QueuedOrFailedAborts ==
  \A n \in 1..NumEnded("poll") :
    (/\ script = "execute"
     /\ Outcome("poll", n) \in AbortReplies
     /\ PollsProcessed)
    =>
    /\ n = NumCalls("poll")
    /\ Len(statuses) = n
    /\ statuses[n] \in {"QUEUED", "FAILED"}
    /\ Len(sleeps) = n
    /\ NumCalls("download") = 0
    /\ pc = "exited"
    /\ exit_status = ExitFailure
    /\ message = (IF statuses[n] = "QUEUED" THEN "Report is QUEUED"
                  ELSE "REPORT EXECUTION FAILED")

C3_Witness ==
  /\ script = "execute" /\ pc = "exited"
  /\ NumCalls("poll") = 3
  /\ Outcome("poll", 1) = WithStatus("RUNNING")
  /\ Outcome("poll", 3) = WithStatus("QUEUED")
  /\ exit_status = ExitFailure

\* the delays the backoff is described to follow: 15 before the first check,
\* 10 after it, then each delay 1.5 times the previous one, truncated
RECURSIVE DescribedDelay(_)
DescribedDelay(i) ==
  IF i = 1 THEN first_wait
  ELSE IF i = 2 THEN initial_sleep_time
  ELSE (DescribedDelay(i - 1) * 3) \div 2

\* C4: after the wait of 15 before the first status check, the delays slept
\* between checks are 10, 15, 22, 33, ...: 10 after check 1, then each delay
\* is the previous one times 1.5, truncated.
C4_BackoffStartsAtTen ==
  script = "execute" =>
    \A i \in 1..Len(sleeps) : sleeps[i] = DescribedDelay(i)

\* the run ended the successful way: accepted token, COMPLETED observed with a
\* usable URL in that same response, and the download fetched and written
SuccessfulRun ==
  /\ NumCalls("login") = 1
  /\ calls[1].kind = "login"
  /\ replies[1] = Token(access_token)
  /\ access_token \notin {Null, Str(""), Str("null")}
  /\ statuses # <<>>
  /\ Last(statuses) = "COMPLETED"
  /\ Outcome("poll", NumCalls("poll")) = Completed(Url(download_url))
  /\ download_url \notin {Null, Str(""), Str("null")}
  /\ NumCalls("download") = 1
  /\ Last(calls).kind = "download"
  /\ Len(replies) = Len(calls)
  /\ Last(replies).exc = "none"
  /\ Last(replies).status < 400
  /\ output_file = Last(replies).body

\* C5 as stated: exit status 0 only after a successful login, a COMPLETED
\* status, a usable pre-signed URL and a successful download.
C5_ZeroOnlyAfterDownload ==
  (script = "execute" /\ pc = "exited" /\ exit_status = ExitSuccess) => SuccessfulRun

\* C5 (amended): exit status 0 only when the script was asked for its help
\* text (no network call is made) or after a successful login, a COMPLETED
\* status, a usable pre-signed URL and a successful download; every other end
\* of the run has a non-zero exit status.
C5_ZeroOnlyAfterDownloadOrHelp ==
  (script = "execute" /\ pc = "exited") =>
    /\ exit_status = ExitSuccess =>
         \/ message = "usage" /\ calls = <<>>
         \/ message = "DOWNLOAD COMPLETE" /\ SuccessfulRun
    /\ message \notin {"usage", "DOWNLOAD COMPLETE"} => exit_status # ExitSuccess

C5_Witness ==
  /\ script = "execute" /\ pc = "exited" /\ exit_status = ExitSuccess
  /\ message = "DOWNLOAD COMPLETE"
  /\ output_file = Str("a,b\n1,2\n")
  /\ Len(statuses) = 3


(***************************************************************************)
(* Properties of the bulk-creation script                                  *)
(***************************************************************************)
WellFormedManifest ==
  \A i \in 1..Len(report_definitions) : report_definitions[i] \in WellFormedDefinitions

\* the creation call came back as an HTTP response the script can read
HttpAnswered(o) == o.exc = "none" /\ ~(o.status = 200 /\ o.body = NotJson)

\* the id carried by a successful creation reply
IdOf(o) == o.body.f["data"].f["createFlexReport"].f["id"].v

\* the number of creation replies the loop body has consumed
NumProcessed ==
  IF pc = "create" /\ netState = "replied"
  THEN NumEnded("create") - 1 ELSE NumEnded("create")

Succeeded(n) == Outcome("create", n) \in SuccessReplies

BulkAuthenticated ==
  /\ script = "bulk"
  /\ NumEnded("login") = 1
  /\ replies[1] = Token(access_token)
  /\ access_token.t = "str"
  /\ access_token \notin {Str(""), Str("null")}

\* C7: once the login has succeeded, both list files are written at the end
\* of the run however many entries failed, all of them included, and hold
\* exactly the IDs and the names accumulated during this run.
C7_BothFilesAlwaysWritten ==
  (/\ BulkAuthenticated
   /\ WellFormedManifest
   /\ report_definitions # <<>>
   /\ pc = "exited")
  =>
  /\ id_file = Written(flex_report_ids)
  /\ success_file = Written(successful_reports)

\* C8: a failure on one manifest entry (transport failure, non-2xx or GraphQL
\* error, malformed or missing response field) stays with that entry: the
\* loop attempts the remaining entries and the files written at the end hold
\* every report created before and after it.
C8_FailureIsolated ==
  (/\ BulkAuthenticated
   /\ WellFormedManifest
   /\ pc = "exited")
  =>
  /\ attempted = [i \in 1..Len(report_definitions) |-> i]
  /\ id_file.exists
  /\ \A n \in 1..NumEnded("create") :
       Succeeded(n) =>
         \E j \in 1..Len(id_file.lines) : id_file.lines[j] = IdOf(Outcome("create", n))
  /\ Len(id_file.lines) = Cardinality({ n \in 1..NumEnded("create") : Succeeded(n) })

(***************************************************************************)
(* Properties of both scripts                                              *)
(***************************************************************************)
\* the login reply has been consumed by the script
LoginProcessed ==
  /\ NumEnded("login") = 1
  /\ ~(pc \in {"authenticate", "bulk_login"} /\ netState = "replied")

\* C9: authentication issues exactly one login call and succeeds only with a
\* token that is non-empty and not "null"; in every other case the script
\* aborts with a failure, makes no second login call and issues no request
\* that carries a token.
C9_OnlyUsableTokenProceeds ==
  /\ NumCalls("login") <= 1
  /\ \A i \in 1..Len(calls) :
       calls[i].auth # Null =>
         /\ NumEnded("login") = 1
         /\ replies[1] = Token(calls[i].auth)
         /\ calls[i].auth.t = "str"
         /\ calls[i].auth.v \notin {"", "null"}
  /\ (LoginProcessed /\ replies[1] # Token(Str("tok"))) =>
       /\ pc = "exited"
       /\ exit_status # ExitSuccess
       /\ Len(calls) = 1

\* C10: every network call carries a timeout, so a call that is never
\* answered ends as a failure of its step; no call follows a call that
\* failed, and login, report info, trigger and download are each issued at
\* most once.
C10_EveryCallHasTimeout ==
  /\ \A i \in 1..Len(calls) : calls[i].timeout # NoTimeout
  /\ netState = "pending" => ENABLED TimeoutExpires
  /\ \A i \in 1..Len(replies) : replies[i].exc # "none" => i = Len(calls)
  /\ \A kind \in {"login", "info", "trigger", "download"} : NumCalls(kind) <= 1


(***************************************************************************)
(* Order of the network operations of the execute-and-download script      *)
(***************************************************************************)
\* the place of each kind of call in the flow
Rank(kind) ==
  CASE kind = "login" -> 1
    [] kind = "info" -> 2
    [] kind = "trigger" -> 3
    [] kind = "poll" -> 4
    [] kind = "download" -> 5
    [] OTHER -> 0

\* the report-info reply that carries a non-empty name
NamedInfoReply == Node(Obj([id |-> Str("r1"), name |-> ReportName]))

\* C11: the network operations of a run come in a fixed order: the first call
\* is the login and there is exactly one; the trigger is issued at most once,
\* only after a login that returned a usable token and a report-info fetch
\* that returned a non-empty name, and before any status check; the download
\* is issued at most once, directly after the status check that returned
\* COMPLETED, with the pre-signed URL of that same response; every
\* authenticated call carries the token of the one login.
C11_FixedCallOrder ==
  script = "execute" =>
    /\ calls # <<>> => calls[1].kind = "login" /\ NumCalls("login") = 1
    /\ \A kind \in {"info", "trigger", "download"} : NumCalls(kind) <= 1
    /\ \A i \in 1..Len(calls) :
         /\ i > 1 =>
              /\ Rank(calls[i].kind) >= Rank(calls[i - 1].kind)
              /\ Rank(calls[i].kind) <= Rank(calls[i - 1].kind) + 1
              /\ Len(replies) >= i - 1
         /\ calls[i].kind \in {"info", "trigger", "poll"} =>
              /\ replies[1] = Token(calls[i].auth)
              /\ calls[i].auth \notin {Null, Str(""), Str("null")}
              /\ calls[i].auth = access_token
         /\ calls[i].kind = "trigger" =>
              /\ calls[i - 1].kind = "info"
              /\ replies[i - 1] = NamedInfoReply
              /\ report_name = ReportName
              /\ NumCalls("poll") = 0 \/ NthCall("poll", 1) = i + 1
         /\ calls[i].kind = "download" =>
              /\ i = Len(calls)
              /\ calls[i - 1].kind = "poll"
              /\ replies[i - 1] \in CompletedReplies
              /\ replies[i - 1] = Completed(Url(download_url))
              /\ download_url \notin {Null, Str(""), Str("null")}
              /\ calls[i].auth = Null
              /\ \A j \in 1..(i - 2) : replies[j] \notin CompletedReplies

C11_Witness ==
  /\ script = "execute"
  /\ Len(calls) = 6
  /\ calls[1].kind = "login" /\ calls[2].kind = "info" /\ calls[3].kind = "trigger"
  /\ calls[4].kind = "poll" /\ calls[5].kind = "poll" /\ calls[6].kind = "download"
  /\ replies[4] = WithStatus("RUNNING")
  /\ replies[5] = Completed(Url(GoodUrl))
  /\ Len(replies) = 6
  /\ pc = "exited" /\ exit_status = ExitSuccess

====
